---- MODULE Spec2Model ----
(***************************************************************************)
(* Model of the MSN Provider Insight dashboard (src/app.py): the calendar  *)
(* generator make_date_list, the trend completer build_complete_trend_data *)
(* the day-over-day detector anomaly_alerts_block_dod_latest_gt500 and    *)
(* the script's run for one of the four views.                             *)
(*                                                                         *)
(* Conventions.                                                            *)
(*  - A calendar date is its day number counted from a Monday, so that     *)
(*    pd.Timestamp(d).weekday() is d % 7 (0 = Monday ... 6 = Sunday).      *)
(*    NaT is the undefined date (pd.isna).                                 *)
(*  - A DataFrame is the sequence of its rows, each row a record.  A cell  *)
(*    that pandas leaves NaN after a merge holds the value NaN.            *)
(*  - threshold_pct is kept in tenths of a percent (the widget's format is *)
(*    "%.1f"), and a change ratio is the exact fraction num/den or +inf,   *)
(*    so "abs(ratio) >= threshold_pct / 100" is compared exactly.          *)
(***************************************************************************)
EXTENDS Integers, Sequences, FiniteSets

VARIABLES
    phase,            \* "input": arguments chosen; "done": the function has returned
    \* make_date_list
    min_d, max_d, policy, use_holidays, holidays_set, days_out,
    \* build_complete_trend_data
    df, date_list, providers_list, trend,
    \* anomaly_alerts_block_dod_latest_gt500
    df_daily, threshold_pct, show_summary, excluded_providers_in_summary,
    message, latest_date, prev_date, comp_alert, alert_lines, pretty, summary,
    \* the script run for one view (lines 391-556)
    menu,             \* the view chosen in the sidebar, "none" before a view runs
    import_data_raw,  \* import_data as prepare_import_data returns it (line 391)
    import_data,      \* import_data after the global exclusion (line 395)
    all_providers,    \* the options of the provider multiselect
    whitelist,        \* the providers selected in it
    selected_date,    \* view 1: the date selected
    provider_counts   \* view 1: the table shown and exported

vars == <<phase, min_d, max_d, policy, use_holidays, holidays_set, days_out,
          df, date_list, providers_list, trend,
          df_daily, threshold_pct, show_summary, excluded_providers_in_summary,
          message, latest_date, prev_date, comp_alert, alert_lines, pretty, summary,
          menu, import_data_raw, import_data, all_providers, whitelist, selected_date,
          provider_counts>>

datesVars == <<min_d, max_d, policy, use_holidays, holidays_set, days_out>>
trendVars == <<df, date_list, providers_list, trend>>
dodVars   == <<df_daily, threshold_pct, show_summary, excluded_providers_in_summary,
               message, latest_date, prev_date, comp_alert, alert_lines, pretty, summary>>

viewVars  == <<menu, import_data_raw, import_data, all_providers, whitelist,
               selected_date, provider_counts>>

\* ------------------------------------------------------------------------
\* Generic helpers
\* ------------------------------------------------------------------------
NaT == -1
NaN == -1
\* the summary block when show_summary is false or the detector returned early
NoSummary == [shown |-> FALSE, inc_count |-> 0, dec_count |-> 0, inc_total |-> 0,
              dec_total |-> 0, net_change |-> 0, net_label |-> "flat", detail |-> <<>>]

\* no view has run
ViewIdle ==
    /\ menu = "none" /\ import_data_raw = <<>> /\ import_data = <<>>
    /\ all_providers = <<>> /\ whitelist = {} /\ selected_date = NaT
    /\ provider_counts = <<>>

Range(s) == { s[i] : i \in DOMAIN s }

IsInjective(s) == \A i, j \in DOMAIN s : s[i] = s[j] => i = j

RECURSIVE SumSeq(_)
SumSeq(s) == IF s = <<>> THEN 0 ELSE Head(s) + SumSeq(Tail(s))

RECURSIVE SetToSortedSeq(_)
\* sorted(...) of a set of integers
SetToSortedSeq(S) ==
    IF S = {} THEN <<>>
    ELSE LET m == CHOOSE x \in S : \A y \in S : x <= y
         IN <<m>> \o SetToSortedSeq(S \ {m})

\* all the orderings of a finite set as sequences without repetition
Perms(S) == { s \in [1..Cardinality(S) -> S] : IsInjective(s) }

\* ------------------------------------------------------------------------
\* make_date_list
\* ------------------------------------------------------------------------
MaxDay == 9
MaxHolidays == 2

Days == 0..MaxDay
Policies == {"workdays", "weekends", "all"}
HolidaySets == { H \in SUBSET Days : Cardinality(H) <= MaxHolidays }

weekday(d) == d % 7

isna(d) == d = NaT

RECURSIVE date_range(_, _)
\* pd.date_range(min_d, max_d, freq="D").date : empty when min_d > max_d
date_range(lo, hi) == IF lo > hi THEN <<>> ELSE <<lo>> \o date_range(lo + 1, hi)

IsWorkday(d) == weekday(d) < 5
IsWeekendDay(d) == weekday(d) >= 5

make_date_list_NoHolidayFilter(lo, hi, pol, useH, H) ==
    IF isna(lo) \/ isna(hi) THEN <<>>
    ELSE LET all_days == date_range(lo, hi) IN
         IF pol = "workdays" THEN SelectSeq(all_days, IsWorkday)
         ELSE IF pol = "weekends" THEN SelectSeq(all_days, IsWeekendDay)
         ELSE all_days

make_date_list(lo, hi, pol, useH, H) ==
    IF isna(lo) \/ isna(hi) THEN <<>>
    ELSE LET all_days == date_range(lo, hi) IN
         IF pol = "workdays" THEN
            LET days == SelectSeq(all_days, IsWorkday)
                NotHoliday(d) == d \notin H
            IN IF useH /\ H # {} THEN SelectSeq(days, NotHoliday) ELSE days
         ELSE IF pol = "weekends" THEN SelectSeq(all_days, IsWeekendDay)
         ELSE all_days

InitDates ==
    /\ phase = "input"
    /\ min_d \in Days \cup {NaT}
    /\ max_d \in Days \cup {NaT}
    /\ policy \in Policies
    /\ use_holidays \in BOOLEAN
    /\ holidays_set \in HolidaySets
    /\ days_out = <<>>
    /\ df = <<>> /\ date_list = <<>> /\ providers_list = <<>> /\ trend = <<>>
    /\ df_daily = <<>> /\ threshold_pct = 0 /\ show_summary = FALSE
    /\ excluded_providers_in_summary = {}
    /\ message = <<>> /\ latest_date = NaT /\ prev_date = NaT
    /\ comp_alert = <<>> /\ alert_lines = <<>> /\ pretty = <<>> /\ summary = NoSummary
    /\ ViewIdle

CallMakeDateList ==
    /\ phase = "input"
    /\ phase' = "done"
    /\ days_out' = make_date_list(min_d, max_d, policy, use_holidays, holidays_set)
    /\ UNCHANGED <<min_d, max_d, policy, use_holidays, holidays_set>>
    /\ UNCHANGED trendVars
    /\ UNCHANGED dodVars
    /\ UNCHANGED viewVars

NextDates == CallMakeDateList

SpecDates == InitDates /\ [][NextDates]_vars

\* -- C3 ------------------------------------------------------------------
MatchesPolicy(d, pol, useH, H) ==
    CASE pol = "workdays" -> weekday(d) \in 0..4 /\ (useH => d \notin H)
      [] pol = "weekends" -> weekday(d) \in {5, 6}
      [] OTHER -> TRUE

StrictlyAscending(s) == \A i, j \in DOMAIN s : i < j => s[i] < s[j]

\* C3: make_date_list returns a strictly ascending list holding exactly the
\* dates of [min, max] that match the policy (Monday-Friday minus the holidays
\* when use_holidays, Saturday-Sunday, or every date); for 'weekends' and 'all'
\* the result is the same for every use_holidays and holiday set; the list is
\* empty when a bound is undefined.
C3_DateListMatchesPolicy ==
    phase = "done" =>
        /\ StrictlyAscending(days_out)
        /\ (isna(min_d) \/ isna(max_d)) => days_out = <<>>
        /\ ~(isna(min_d) \/ isna(max_d)) =>
              /\ Range(days_out) =
                    { d \in min_d..max_d : MatchesPolicy(d, policy, use_holidays, holidays_set) }
              /\ Len(days_out) = Cardinality(
                    { d \in min_d..max_d : MatchesPolicy(d, policy, use_holidays, holidays_set) })
        /\ policy # "workdays" =>
              days_out = make_date_list(min_d, max_d, policy, FALSE, {})

\* a workday window spanning a weekend in which a holiday was removed
C3_Witness ==
    /\ phase = "done"
    /\ policy = "workdays" /\ use_holidays
    /\ \E h \in holidays_set : h \in min_d..max_d /\ weekday(h) < 5
    /\ \E d \in min_d..max_d : weekday(d) >= 5
    /\ Len(days_out) >= 3

\* ------------------------------------------------------------------------
\* build_complete_trend_data
\* ------------------------------------------------------------------------
MaxTrendRows == 3
MaxTrendDay == 2

TrendDays == 1..MaxTrendDay
TrendLabels == {"A", "B"}
TrendCounts == {0, 1, 2}

LabelIdx(l) == CASE l = "A" -> 0 [] l = "A " -> 1 [] l = "B" -> 2 [] OTHER -> 3

\* observed records: the columns of import_data that the function reads
TrendRecords == [date_parsed : TrendDays, provider_label : TrendLabels, importcount : TrendCounts]

TrendRecordOrd(r) == (r.date_parsed * 4 + LabelIdx(r.provider_label)) * 3 + r.importcount

\* The frames of at most MaxTrendRows records.  groupby(...).sum() does not
\* depend on the order of the rows, so one row order stands for each frame.
TrendFrames ==
    UNION { { f \in [1..n -> TrendRecords] :
                \A i \in 1..(n - 1) : TrendRecordOrd(f[i]) <= TrendRecordOrd(f[i + 1]) }
            : n \in 0..MaxTrendRows }

DuplicateFreeLists(S) == UNION { Perms(T) : T \in SUBSET S }

\* strftime("%Y-%m-%d") of a date: a text, not the date itself
strftime(d) == <<"%Y-%m-%d", d>>

GroupKeyOrd(k) == k[1] * 4 + LabelIdx(k[2])

RECURSIVE KeysToSortedSeq(_)
KeysToSortedSeq(K) ==
    IF K = {} THEN <<>>
    ELSE LET m == CHOOSE x \in K : \A y \in K : GroupKeyOrd(x) <= GroupKeyOrd(y)
         IN <<m>> \o KeysToSortedSeq(K \ {m})

\* the importcount cells of the rows of frame f in group (d, p)
GroupCounts(f, d, p) ==
    LET InGroup(r) == r.date_parsed = d /\ r.provider_label = p
        sel == SelectSeq(f, InGroup)
    IN [i \in DOMAIN sel |-> sel[i].importcount]

trend_agg_KeepLast(f) ==
    LET keys == KeysToSortedSeq({ <<f[i].date_parsed, f[i].provider_label>> : i \in DOMAIN f })
    IN [i \in DOMAIN keys |->
          LET g == GroupCounts(f, keys[i][1], keys[i][2])
          IN [date_parsed |-> keys[i][1], provider_label |-> keys[i][2],
              importcount |-> g[Len(g)]]]

\* df.groupby(["date_parsed", "provider_label"], dropna=False)["importcount"].sum().reset_index()
trend_agg(f) ==
    LET keys == KeysToSortedSeq({ <<f[i].date_parsed, f[i].provider_label>> : i \in DOMAIN f })
    IN [i \in DOMAIN keys |->
          [date_parsed |-> keys[i][1], provider_label |-> keys[i][2],
           importcount |-> SumSeq(GroupCounts(f, keys[i][1], keys[i][2]))]]

\* pd.MultiIndex.from_product([date_list, providers_list]).to_frame(index=False)
from_product(dl, pl) ==
    [k \in 1..(Len(dl) * Len(pl)) |->
        [date_parsed |-> dl[((k - 1) \div Len(pl)) + 1],
         provider_label |-> pl[((k - 1) % Len(pl)) + 1]]]

RECURSIVE FlattenSeq(_)
FlattenSeq(ss) == IF ss = <<>> THEN <<>> ELSE Head(ss) \o FlattenSeq(Tail(ss))

\* grid.merge(right, on=["date_parsed", "provider_label"], how="left"):
\* one row per matching row of right, or one row with NaN when there is none
merge_left(grid, right) ==
    FlattenSeq(
      [k \in DOMAIN grid |->
         LET Matches(r) == r.date_parsed = grid[k].date_parsed
                           /\ r.provider_label = grid[k].provider_label
             m == SelectSeq(right, Matches)
         IN IF m = <<>>
            THEN << [date_parsed |-> grid[k].date_parsed,
                     provider_label |-> grid[k].provider_label, importcount |-> NaN] >>
            ELSE [i \in DOMAIN m |->
                    [date_parsed |-> grid[k].date_parsed,
                     provider_label |-> grid[k].provider_label,
                     importcount |-> m[i].importcount]]])

fillna0(x) == IF x = NaN THEN 0 ELSE x

build_complete_trend_data_MergeRaw(f, dl, pl) ==
    IF f = <<>> \/ Len(dl) = 0 \/ Len(pl) = 0 THEN <<>>
    ELSE LET t == merge_left(from_product(dl, pl), f)
         IN [i \in DOMAIN t |->
               [date_parsed |-> t[i].date_parsed, provider_label |-> t[i].provider_label,
                importcount |-> fillna0(t[i].importcount),
                date |-> t[i].date_parsed, date_str |-> strftime(t[i].date_parsed)]]

build_complete_trend_data(f, dl, pl) ==
    IF f = <<>> \/ Len(dl) = 0 \/ Len(pl) = 0 THEN <<>>
    ELSE LET agg == trend_agg(f)
             grid == from_product(dl, pl)
             t == merge_left(grid, agg)
         IN [i \in DOMAIN t |->
               [date_parsed |-> t[i].date_parsed, provider_label |-> t[i].provider_label,
                importcount |-> fillna0(t[i].importcount),
                date |-> t[i].date_parsed, date_str |-> strftime(t[i].date_parsed)]]

InitTrend ==
    /\ phase = "input"
    /\ df \in TrendFrames
    /\ date_list \in DuplicateFreeLists(TrendDays)
    /\ providers_list \in DuplicateFreeLists(TrendLabels)
    /\ trend = <<>>
    /\ min_d = NaT /\ max_d = NaT /\ policy = "all" /\ use_holidays = FALSE
    /\ holidays_set = {} /\ days_out = <<>>
    /\ df_daily = <<>> /\ threshold_pct = 0 /\ show_summary = FALSE
    /\ excluded_providers_in_summary = {}
    /\ message = <<>> /\ latest_date = NaT /\ prev_date = NaT
    /\ comp_alert = <<>> /\ alert_lines = <<>> /\ pretty = <<>> /\ summary = NoSummary
    /\ ViewIdle

CallBuildCompleteTrendData ==
    /\ phase = "input"
    /\ phase' = "done"
    /\ trend' = build_complete_trend_data(df, date_list, providers_list)
    /\ UNCHANGED <<df, date_list, providers_list>>
    /\ UNCHANGED datesVars
    /\ UNCHANGED dodVars
    /\ UNCHANGED viewVars

NextTrend == CallBuildCompleteTrendData

SpecTrend == InitTrend /\ [][NextTrend]_vars

\* -- C1 ------------------------------------------------------------------
CellRows(t, d, p) == { i \in DOMAIN t : t[i].date_parsed = d /\ t[i].provider_label = p }

FullGrid(t, dl, pl) ==
    /\ Len(t) = Len(dl) * Len(pl)
    /\ \A d \in Range(dl), p \in Range(pl) : Cardinality(CellRows(t, d, p)) = 1

\* C1 as stated: the output has exactly len(date_list) * len(providers_list)
\* rows, one for each (date, provider) pair and none twice, for every set of
\* observed records, the empty one included.
C1_AlwaysFullGrid ==
    phase = "done" => FullGrid(trend, date_list, providers_list)

\* C1 amended: for a non-empty set of observed records the output is the full
\* grid, each (date, provider) pair exactly once; for an empty set of records
\* the output has no rows.
C1_FullGridUnlessNoRecords ==
    phase = "done" =>
        IF df = <<>> THEN trend = <<>>
        ELSE FullGrid(trend, date_list, providers_list)

\* two records on one (date, provider), a zero-filled pair, two dates, two providers
C1_Witness ==
    /\ phase = "done"
    /\ Len(date_list) = 2 /\ Len(providers_list) = 2
    /\ \E i, j \in DOMAIN df : i # j /\ df[i].date_parsed = df[j].date_parsed
                               /\ df[i].provider_label = df[j].provider_label
    /\ \E d \in Range(date_list), p \in Range(providers_list) :
          \A i \in DOMAIN df : ~(df[i].date_parsed = d /\ df[i].provider_label = p)
    /\ Len(trend) = 4

\* -- C2 ------------------------------------------------------------------
GridSum(t, p) ==
    LET Of(r) == r.provider_label = p
        sel == SelectSeq(t, Of)
    IN SumSeq([i \in DOMAIN sel |-> sel[i].importcount])

RawSumInWindow(f, dl, p) ==
    LET In(r) == r.provider_label = p /\ r.date_parsed \in Range(dl)
        sel == SelectSeq(f, In)
    IN SumSeq([i \in DOMAIN sel |-> sel[i].importcount])

\* C2: for every provider of the provider list, the sum of its grid counts
\* equals the sum of the counts of its raw records dated in the date list
\* (records of one pair add up, a pair without record contributes 0).
C2_ZeroFillAdditiveNeutral ==
    phase = "done" =>
        \A p \in Range(providers_list) :
            GridSum(trend, p) = RawSumInWindow(df, date_list, p)

\* a provider with two positive records on one listed date and a record
\* outside the date list
C2_Witness ==
    /\ phase = "done"
    /\ \E p \in Range(providers_list) :
         /\ \E i, j \in DOMAIN df :
               /\ i # j /\ df[i].provider_label = p /\ df[j].provider_label = p
               /\ df[i].date_parsed = df[j].date_parsed
               /\ df[i].date_parsed \in Range(date_list)
               /\ df[i].importcount > 0 /\ df[j].importcount > 0
               /\ df[i].importcount # df[j].importcount
         /\ \E k \in DOMAIN df : df[k].provider_label = p
                                 /\ df[k].date_parsed \notin Range(date_list)
                                 /\ df[k].importcount > 0
         /\ GridSum(trend, p) = 3

\* ------------------------------------------------------------------------
\* anomaly_alerts_block_dod_latest_gt500
\* ------------------------------------------------------------------------
MaxDailyRows == 3

\* (providerid, provider_label): the label is the provider's name, which may
\* carry surrounding blanks ("A " is "A" followed by a blank)
DodProviders == { <<1, "A">>, <<2, "A ">>, <<3, "B">> }
DodDays == {1, 2}
DodCounts == {0, 250, 1000}

\* threshold_pct in tenths of a percent: 5.0 (the widget's minimum), 100.0 and
\* 100.1
MinThresholdTenths == 50
Thresholds == {MinThresholdTenths, 1000, 1001}

\* excluded_providers_in_summary: None behaves as the empty set (line 338)
SummaryOptions == { <<FALSE, {}>>, <<TRUE, {}>>, <<TRUE, {"A"}>> }

DailyRecords(P, D, C) ==
    { [providerid |-> p[1], provider_label |-> p[2], date |-> d, importcount |-> c] :
        p \in P, d \in D, c \in C }

DailyRecordOrd(r) == (r.providerid * 8 + r.date) * 2048 + r.importcount

\* The frames of at most MaxDailyRows rows, one row order for each frame: the
\* detector groups and sums, which does not depend on the order of the rows.
FramesOf(R) ==
    UNION { { f \in [1..n -> R] :
                \A i \in 1..(n - 1) : DailyRecordOrd(f[i]) <= DailyRecordOrd(f[i + 1]) }
            : n \in 0..MaxDailyRows }

DailyFrames == FramesOf(DailyRecords(DodProviders, DodDays, DodCounts))

Abs(x) == IF x < 0 THEN -x ELSE x

\* str.strip() of a label
strip(l) == IF l = "A " THEN "A" ELSE l

\* sorted(df_daily["date"].dropna().unique())
dod_dates_sorted(f) == SetToSortedSeq({ f[i].date : i \in DOMAIN f } \ {NaT})

dod_latest_prev_Oldest(ds) == [latest |-> ds[Len(ds)], prev |-> ds[1]]

\* latest_date = dates_sorted[-1]; prev_date = dates_sorted[-2]
dod_latest_prev(ds) == [latest |-> ds[Len(ds)], prev |-> ds[Len(ds) - 1]]

ProviderKeyOrd(k) == k[1] * 4 + LabelIdx(k[2])

RECURSIVE ProviderKeysSorted(_)
ProviderKeysSorted(K) ==
    IF K = {} THEN <<>>
    ELSE LET m == CHOOSE x \in K : \A y \in K : ProviderKeyOrd(x) <= ProviderKeyOrd(y)
         IN <<m>> \o ProviderKeysSorted(K \ {m})

\* df_daily[df_daily["date"] == d].groupby(["providerid", "provider_label"])["importcount"].sum()
dod_day_totals(f, d) ==
    LET OnDay(r) == r.date = d
        rows == SelectSeq(f, OnDay)
        keys == ProviderKeysSorted({ <<rows[i].providerid, rows[i].provider_label>> : i \in DOMAIN rows })
    IN [i \in DOMAIN keys |->
          LET Of(r) == r.providerid = keys[i][1] /\ r.provider_label = keys[i][2]
              g == SelectSeq(rows, Of)
          IN [providerid |-> keys[i][1], provider_label |-> keys[i][2],
              count |-> SumSeq([j \in DOMAIN g |-> g[j].importcount])]]

\* the count of key k in a grouped frame, NaN when the key has no row
lookup_count(t, k) ==
    IF \E i \in DOMAIN t : t[i].providerid = k[1] /\ t[i].provider_label = k[2]
    THEN t[CHOOSE i \in DOMAIN t : t[i].providerid = k[1] /\ t[i].provider_label = k[2]].count
    ELSE NaN

\* pd.merge(latest_df, prev_df, on=["providerid", "provider_label"], how="outer").fillna(0)
merge_outer_fillna(latest_df, prev_df) ==
    LET keys == ProviderKeysSorted(
                   { <<latest_df[i].providerid, latest_df[i].provider_label>> : i \in DOMAIN latest_df }
                   \cup { <<prev_df[i].providerid, prev_df[i].provider_label>> : i \in DOMAIN prev_df })
    IN [i \in DOMAIN keys |->
          [providerid |-> keys[i][1], provider_label |-> keys[i][2],
           latest_count |-> fillna0(lookup_count(latest_df, keys[i])),
           prev_count |-> fillna0(lookup_count(prev_df, keys[i]))]]

is_candidate_NoVolumeFloor(row) ==
    row.latest_count > 0 \/ (row.latest_count = 0 /\ row.prev_count > 0)

is_candidate_VolumeOnly(row) == row.latest_count > 500

\* normal_candidates | drop_to_zero_candidates
is_candidate(row) ==
    row.latest_count > 500 \/ (row.latest_count = 0 /\ row.prev_count > 0)

RatioInf == [inf |-> TRUE, num |-> 1, den |-> 1]
RatioZero == [inf |-> FALSE, num |-> 0, den |-> 1]

calc_ratio_ZeroBaselineIsFlat(prev, now) ==
    IF prev = 0 THEN RatioZero
    ELSE [inf |-> FALSE, num |-> now - prev, den |-> prev]

\* calc_ratio: float("inf"), 0.0 or (now - prev) / prev, kept as a fraction
calc_ratio(prev, now) ==
    IF prev = 0 THEN (IF now > 0 THEN RatioInf ELSE RatioZero)
    ELSE [inf |-> FALSE, num |-> now - prev, den |-> prev]

direction_of_Swapped(prev, now) == IF prev >= now THEN "increase" ELSE "decrease"

\* the direction lambda of line 302 ("升高" / "减少")
direction_of(prev, now) == IF now >= prev THEN "increase" ELSE "decrease"

exceeds_threshold_Strict(ratio, t) ==
    ratio.inf \/ Abs(ratio.num) * 1000 > t * ratio.den

\* comp_alert["change_ratio"].abs() >= float(threshold_pct) / 100.0
exceeds_threshold(ratio, t) ==
    ratio.inf \/ Abs(ratio.num) * 1000 >= t * ratio.den

\* comp_alert with its change_ratio and direction columns
dod_comp_alert(comp) ==
    LET cand == SelectSeq(comp, is_candidate)
    IN [i \in DOMAIN cand |->
          [providerid |-> cand[i].providerid, provider_label |-> cand[i].provider_label,
           latest_count |-> cand[i].latest_count, prev_count |-> cand[i].prev_count,
           change_ratio |-> calc_ratio(cand[i].prev_count, cand[i].latest_count),
           direction |-> direction_of(cand[i].prev_count, cand[i].latest_count)]]

dod_alerts_df_SkipExcluded(ca, t, excluded) ==
    LET Hit(r) == exceeds_threshold(r.change_ratio, t) /\ strip(r.provider_label) \notin excluded
    IN SelectSeq(ca, Hit)

\* alerts_df: the exclusion set is in scope but not consulted
dod_alerts_df(ca, t, excluded) ==
    LET Hit(r) == exceeds_threshold(r.change_ratio, t)
    IN SelectSeq(ca, Hit)

dod_sort_alerts_ByRatio(alerts_df) ==
    { s \in Perms(Range(alerts_df)) :
        \A i, j \in DOMAIN s : i < j =>
            \/ s[i].change_ratio.inf
            \/ /\ ~s[j].change_ratio.inf
               /\ Abs(s[i].change_ratio.num) * s[j].change_ratio.den
                    >= Abs(s[j].change_ratio.num) * s[i].change_ratio.den }

\* alerts_df.sort_values(by="prev_count", ascending=False): every order that
\* is descending in prev_count; rows with equal prev_count come in an order
\* the sort does not define
dod_sort_alerts(alerts_df) ==
    { s \in Perms(Range(alerts_df)) :
        \A i, j \in DOMAIN s : i < j => s[i].prev_count >= s[j].prev_count }

\* summary_detail.sort_values(by=<latest count>, ascending=False)
dod_sort_summary(full) ==
    { s \in Perms(Range(full)) :
        \A i, j \in DOMAIN s : i < j => s[i].latest_count >= s[j].latest_count }

\* f"{(x*100):.2f}%": the ratio in hundredths of a percent, rounded to nearest
\* (half to even); "∞" for float("inf")
format_ratio(ratio) ==
    IF ratio.inf THEN [text |-> "inf", hundredths |-> 0]
    ELSE LET n == Abs(ratio.num) * 10000
             q == n \div ratio.den
             r2 == 2 * (n % ratio.den)
             up == r2 > ratio.den \/ (r2 = ratio.den /\ q % 2 = 1)
             m == IF up THEN q + 1 ELSE q
         IN [text |-> "pct", hundredths |-> IF ratio.num < 0 THEN -m ELSE m]

\* the rows of the alert detail shown and exported
dod_pretty(sorted, latest, prev) ==
    [i \in DOMAIN sorted |->
        [ProviderId |-> sorted[i].providerid, Provider |-> sorted[i].provider_label,
         prev_date |-> strftime(prev), prev_count |-> sorted[i].prev_count,
         latest_date |-> strftime(latest), latest_count |-> sorted[i].latest_count,
         ratio_text |-> format_ratio(sorted[i].change_ratio),
         direction |-> sorted[i].direction]]

\* one alert line per row of alerts_df_sorted
dod_alert_lines(sorted) ==
    [i \in DOMAIN sorted |->
        [provider_label |-> sorted[i].provider_label, direction |-> sorted[i].direction]]

\* full: the outer merge of both days, minus the excluded labels, with the
\* signed change and its direction ("升高" / "减少" / "持平")
dod_summary_full(comp, excluded) ==
    LET Kept(r) == excluded = {} \/ strip(r.provider_label) \notin excluded
        full == SelectSeq(comp, Kept)
    IN [i \in DOMAIN full |->
          LET change == full[i].latest_count - full[i].prev_count
          IN [providerid |-> full[i].providerid, provider_label |-> full[i].provider_label,
              latest_count |-> full[i].latest_count, prev_count |-> full[i].prev_count,
              change |-> change,
              direction |-> IF change > 0 THEN "increase"
                            ELSE IF change < 0 THEN "decrease" ELSE "flat"]]

\* the printed summary and its detail table (sorted by latest count, descending)
dod_summary(full, detail, latest, prev) ==
    LET Inc(r) == r.change > 0
        Dec(r) == r.change < 0
        inc_df == SelectSeq(full, Inc)
        dec_df == SelectSeq(full, Dec)
        net == SumSeq([i \in DOMAIN full |-> full[i].change])
    IN [shown |-> TRUE,
        inc_count |-> Len(inc_df), dec_count |-> Len(dec_df),
        inc_total |-> SumSeq([i \in DOMAIN inc_df |-> inc_df[i].change]),
        dec_total |-> SumSeq([i \in DOMAIN dec_df |-> -dec_df[i].change]),
        net_change |-> net,
        net_label |-> IF net > 0 THEN "increase" ELSE IF net < 0 THEN "decrease" ELSE "flat",
        detail |-> [i \in DOMAIN detail |->
                      [ProviderId |-> detail[i].providerid, Provider |-> detail[i].provider_label,
                       prev_date |-> strftime(prev), prev_count |-> detail[i].prev_count,
                       latest_date |-> strftime(latest), latest_count |-> detail[i].latest_count,
                       change |-> detail[i].change, direction |-> detail[i].direction]]]

InitDodWith(frames) ==
    /\ phase = "input"
    /\ df_daily \in frames
    /\ threshold_pct = MinThresholdTenths /\ show_summary = FALSE
    /\ excluded_providers_in_summary = {}
    /\ message = <<>> /\ latest_date = NaT /\ prev_date = NaT
    /\ comp_alert = <<>> /\ alert_lines = <<>> /\ pretty = <<>> /\ summary = NoSummary
    /\ ViewIdle
    /\ min_d = NaT /\ max_d = NaT /\ policy = "all" /\ use_holidays = FALSE
    /\ holidays_set = {} /\ days_out = <<>>
    /\ df = <<>> /\ date_list = <<>> /\ providers_list = <<>> /\ trend = <<>>

InitDod == InitDodWith(DailyFrames)

\* the arguments threshold_pct, show_summary and excluded_providers_in_summary
DetectorArgs(t, opt) ==
    /\ threshold_pct' = t
    /\ show_summary' = opt[1]
    /\ excluded_providers_in_summary' = opt[2]

\* anomaly_alerts_block_dod_latest_gt500(f, ..., t, show, excluded) with t in T
\* and (show, excluded) in Opts: what it shows and exports
RunDetector(f, T, Opts) ==
    IF f = <<>> \/ \A i \in DOMAIN f : isna(f[i].date)
    THEN /\ \E t \in T, opt \in Opts : DetectorArgs(t, opt)
         /\ message' = << "no_date_data" >>
         /\ UNCHANGED <<latest_date, prev_date, comp_alert, alert_lines, pretty, summary>>
    ELSE LET dates_sorted == dod_dates_sorted(f) IN
      IF Len(dates_sorted) < 2
      THEN /\ \E t \in T, opt \in Opts : DetectorArgs(t, opt)
           /\ message' = << "less_than_2_days" >>
           /\ UNCHANGED <<latest_date, prev_date, comp_alert, alert_lines, pretty, summary>>
      ELSE LET lp == dod_latest_prev(dates_sorted)
               latest_df == dod_day_totals(f, lp.latest)
               prev_df == dod_day_totals(f, lp.prev)
               comp == merge_outer_fillna(latest_df, prev_df)
               ca == dod_comp_alert(comp)
           IN /\ latest_date' = lp.latest
              /\ prev_date' = lp.prev
              /\ comp_alert' = ca
              /\ \E t \in T, opt \in Opts :
                   LET alerts_df == dod_alerts_df(ca, t, opt[2])
                       full == dod_summary_full(comp, opt[2])
                   IN /\ DetectorArgs(t, opt)
                      /\ message' = IF alerts_df = <<>> THEN << "header", "no_anomaly" >>
                                    ELSE << "header" >>
                      /\ \E alerts_df_sorted \in dod_sort_alerts(alerts_df) :
                            /\ alert_lines' = dod_alert_lines(alerts_df_sorted)
                            /\ pretty' = dod_pretty(alerts_df_sorted, lp.latest, lp.prev)
                      /\ IF opt[1]
                         THEN \E detail \in dod_sort_summary(full) :
                                 summary' = dod_summary(full, detail, lp.latest, lp.prev)
                         ELSE summary' = NoSummary

\* one call of the detector on the frame df_daily
CallDetector(T) ==
    /\ phase = "input"
    /\ phase' = "done"
    /\ RunDetector(df_daily, T, SummaryOptions)
    /\ UNCHANGED df_daily
    /\ UNCHANGED datesVars
    /\ UNCHANGED trendVars
    /\ UNCHANGED viewVars

NextDod == CallDetector(Thresholds)

SpecDod == InitDod /\ [][NextDod]_vars

\* the example of the change-ratio rule: 100 -> 160 and 1000 -> 1600 at the
\* thresholds 50.0, 60.0 and 61.0
RatioProviders == { <<1, "A">>, <<3, "B">> }
RatioDays == {1, 2}
RatioCounts == {100, 160, 1000, 1600}
RatioThresholds == {500, 600, 610}

InitDodRatio == InitDodWith(FramesOf(DailyRecords(RatioProviders, RatioDays, RatioCounts)))

NextDodRatio == CallDetector(RatioThresholds)

SpecDodRatio == InitDodRatio /\ [][NextDodRatio]_vars

\* frames over three dates and the missing date, for the choice of the two
\* dates compared
ThreeDays == {NaT, 1, 2, 3}
ThreeDayCounts == {250, 1000}

InitDodDates == InitDodWith(FramesOf(DailyRecords(RatioProviders, ThreeDays, ThreeDayCounts)))

NextDodDates == CallDetector(Thresholds)

SpecDodDates == InitDodDates /\ [][NextDodDates]_vars

\* ------------------------------------------------------------------------
\* What the claims about the detector speak of, stated on the input frame
\* ------------------------------------------------------------------------
DistinctDates(f) == { f[i].date : i \in DOMAIN f } \ {NaT}

Greatest(S) == CHOOSE x \in S : \A y \in S : y <= x

RefLatest(f) == Greatest(DistinctDates(f))
RefPrev(f) == Greatest(DistinctDates(f) \ {RefLatest(f)})

ProviderKeys(f) == { <<f[i].providerid, f[i].provider_label>> : i \in DOMAIN f }

\* the providers with a row on date d
PresentOn(f, d) ==
    { <<f[i].providerid, f[i].provider_label>> : i \in { j \in DOMAIN f : f[j].date = d } }

\* a provider's total on date d, 0 when it has no row on that date
DayTotal(f, k, d) ==
    LET Of(r) == r.providerid = k[1] /\ r.provider_label = k[2] /\ r.date = d
        sel == SelectSeq(f, Of)
    IN SumSeq([i \in DOMAIN sel |-> sel[i].importcount])

LatestTotal(k) == DayTotal(df_daily, k, RefLatest(df_daily))
PrevTotal(k) == DayTotal(df_daily, k, RefPrev(df_daily))

Compared == phase = "done" /\ Cardinality(DistinctDates(df_daily)) >= 2

AlertRowsOf(k) == { i \in DOMAIN pretty : pretty[i].ProviderId = k[1] /\ pretty[i].Provider = k[2] }
Alerted(k) == AlertRowsOf(k) # {}
AlertedAs(k, dir) ==
    /\ Alerted(k)
    /\ \A i \in AlertRowsOf(k) :
          pretty[i].direction = dir /\ alert_lines[i].provider_label = k[2]
                                    /\ alert_lines[i].direction = dir

CandidateRowsOf(k) ==
    { i \in DOMAIN comp_alert :
        comp_alert[i].providerid = k[1] /\ comp_alert[i].provider_label = k[2] }

RefCandidate(k) ==
    LatestTotal(k) > 500 \/ (LatestTotal(k) = 0 /\ PrevTotal(k) > 0)

\* |ratio| >= threshold/100 with the ratio of the claim, t in tenths of a percent
RefRatioReaches(prev, now, t) ==
    IF prev # 0 THEN Abs(now - prev) * 1000 >= t * prev
    ELSE IF now > 0 THEN TRUE
    ELSE 0 >= t

\* -- C4 ------------------------------------------------------------------
\* C4: a provider is alerted only if its latest-day total is > 500, or its
\* latest-day total is 0 and its previous-day total is > 0 (no row on a date
\* counts as 0), whatever its ratio and the threshold.
C4_OnlyCandidatesAlerted ==
    Compared =>
        /\ \A i \in DOMAIN pretty :
              RefCandidate(<<pretty[i].ProviderId, pretty[i].Provider>>)
        /\ \A i \in DOMAIN comp_alert :
              RefCandidate(<<comp_alert[i].providerid, comp_alert[i].provider_label>>)
        /\ \A k \in ProviderKeys(df_daily) : ~RefCandidate(k) => ~Alerted(k)

\* a provider rising from nothing to 250 (ratio +inf, but not above 500) is
\* passed over while another provider is alerted
C4_Witness ==
    /\ Compared
    /\ \E k \in ProviderKeys(df_daily) :
          PrevTotal(k) = 0 /\ LatestTotal(k) = 250 /\ ~Alerted(k)
    /\ \E k \in ProviderKeys(df_daily) : Alerted(k)

\* -- C5 ------------------------------------------------------------------
CandidateAlertedIffRatioReaches ==
    \A k \in ProviderKeys(df_daily) :
        RefCandidate(k) =>
            (Alerted(k) <=> RefRatioReaches(PrevTotal(k), LatestTotal(k), threshold_pct))

ExampleAlerts(prev, now) ==
    \A k \in ProviderKeys(df_daily) :
        (PrevTotal(k) = prev /\ LatestTotal(k) = now) =>
            /\ threshold_pct = 500 => Alerted(k)
            /\ threshold_pct = 610 => ~Alerted(k)

\* C5 as stated: a candidate is an alert iff |ratio| >= threshold/100, and
\* prev=100, latest=160 alerts at threshold 50% but not at 61%.
C5_RatioRuleWithExample100 ==
    Compared => (CandidateAlertedIffRatioReaches /\ ExampleAlerts(100, 160))

\* C5 amended: a candidate is an alert iff |ratio| >= threshold/100, and
\* prev=1000, latest=1600 alerts at threshold 50% but not at 61%.
C5_RatioRuleWithExample1000 ==
    Compared => (CandidateAlertedIffRatioReaches /\ ExampleAlerts(1000, 1600))

\* 1000 -> 1600 at exactly 60%: ratio 0.6 reaches the threshold
C5_Witness ==
    /\ Compared
    /\ threshold_pct = 600
    /\ \E k \in ProviderKeys(df_daily) :
          PrevTotal(k) = 1000 /\ LatestTotal(k) = 1600 /\ AlertedAs(k, "increase")

\* -- C6 ------------------------------------------------------------------
\* C6: a provider with previous-day total > 0 and latest-day total 0 (or no
\* row on the latest date) is a candidate whatever its volume, has ratio -1.0,
\* and is alerted, with direction 'decrease', exactly when threshold <= 100%.
C6_DropToZero ==
    Compared =>
        \A k \in ProviderKeys(df_daily) :
            (PrevTotal(k) > 0 /\ LatestTotal(k) = 0) =>
                /\ CandidateRowsOf(k) # {}
                /\ \A i \in CandidateRowsOf(k) :
                      /\ ~comp_alert[i].change_ratio.inf
                      /\ comp_alert[i].change_ratio.num = -comp_alert[i].change_ratio.den
                /\ Alerted(k) <=> threshold_pct <= 1000
                /\ Alerted(k) => AlertedAs(k, "decrease")

\* a provider of 250 the day before and no row on the latest date, alerted at 100%
C6_Witness ==
    /\ Compared
    /\ threshold_pct = 1000
    /\ \E k \in ProviderKeys(df_daily) :
          /\ PrevTotal(k) = 250
          /\ k \notin PresentOn(df_daily, RefLatest(df_daily))
          /\ AlertedAs(k, "decrease")

\* -- C7 ------------------------------------------------------------------
\* C7: a provider with previous-day total 0 (or no row on the previous date)
\* and latest-day total > 500 is a candidate with ratio +inf and is alerted,
\* with direction 'increase', at every threshold.
C7_BaselineZero ==
    Compared =>
        \A k \in ProviderKeys(df_daily) :
            (PrevTotal(k) = 0 /\ LatestTotal(k) > 500) =>
                /\ CandidateRowsOf(k) # {}
                /\ \A i \in CandidateRowsOf(k) : comp_alert[i].change_ratio.inf
                /\ AlertedAs(k, "increase")

\* a provider without row on the previous date and 1000 on the latest one,
\* alerted at the largest threshold
C7_Witness ==
    /\ Compared
    /\ \A t \in Thresholds : t <= threshold_pct
    /\ \E k \in ProviderKeys(df_daily) :
          /\ k \notin PresentOn(df_daily, RefPrev(df_daily))
          /\ LatestTotal(k) = 1000
          /\ AlertedAs(k, "increase")

\* -- C8 ------------------------------------------------------------------
\* C8: of two alerted providers the one with the greater previous-day total
\* is listed first, whatever their ratios, in the alert lines and in the
\* alert detail alike.
C8_AlertsByPrevDescending ==
    Compared =>
        /\ \A i, j \in DOMAIN pretty :
              pretty[i].prev_count > pretty[j].prev_count => i < j
        /\ Len(alert_lines) = Len(pretty)
        /\ \A i \in DOMAIN pretty :
              alert_lines[i].provider_label = pretty[i].Provider

\* two alerts: the first dropped from 1000 to zero (ratio -1.0), the second
\* rose from 250 to 1000 (ratio +3.0)
C8_Witness ==
    /\ Compared
    /\ Len(pretty) = 2
    /\ pretty[1].prev_count = 1000 /\ pretty[1].latest_count = 0
    /\ pretty[2].prev_count = 250 /\ pretty[2].latest_count = 1000
    /\ alert_lines[1].direction = "decrease" /\ alert_lines[2].direction = "increase"

\* -- C9 ------------------------------------------------------------------
PresentEither(f) == PresentOn(f, RefLatest(f)) \cup PresentOn(f, RefPrev(f))

SummaryRowsOf(k) ==
    { i \in DOMAIN summary.detail :
        summary.detail[i].ProviderId = k[1] /\ summary.detail[i].Provider = k[2] }

\* C9: the alerts are those of the candidate and ratio rules alone, whatever
\* the summary exclusion set, listed by descending previous-day total; and the
\* summary has one row for every provider present on either date whose label
\* is not in the exclusion set, candidate or not, and for no other.
C9_ExclusionTouchesSummaryOnly ==
    Compared =>
        /\ \A k \in ProviderKeys(df_daily) :
              Alerted(k) <=> ( /\ k \in PresentEither(df_daily)
                               /\ RefCandidate(k)
                               /\ RefRatioReaches(PrevTotal(k), LatestTotal(k), threshold_pct) )
        /\ \A i, j \in DOMAIN pretty : i < j => pretty[i].prev_count >= pretty[j].prev_count
        /\ show_summary =>
              /\ summary.shown
              /\ \A k \in ProviderKeys(df_daily) :
                    Cardinality(SummaryRowsOf(k)) =
                        IF k \in PresentEither(df_daily)
                           /\ strip(k[2]) \notin excluded_providers_in_summary
                        THEN 1 ELSE 0
              /\ Len(summary.detail) =
                    Cardinality({ k \in PresentEither(df_daily) :
                                    strip(k[2]) \notin excluded_providers_in_summary })
        /\ ~show_summary => ~summary.shown

\* an excluded provider is alerted and missing from the summary, which holds
\* a provider that is no candidate
C9_Witness ==
    /\ Compared
    /\ show_summary
    /\ \E k \in ProviderKeys(df_daily) :
          /\ k[2] \in excluded_providers_in_summary
          /\ Alerted(k)
          /\ SummaryRowsOf(k) = {}
    /\ \E k \in ProviderKeys(df_daily) :
          ~RefCandidate(k) /\ SummaryRowsOf(k) # {}

\* -- C10 -----------------------------------------------------------------
\* C10: with fewer than 2 distinct dates the detector only reports that it
\* cannot compare: no alert, no summary; with 2 or more, latest and prev are
\* the two greatest distinct dates.
C10_NeedsTwoDates ==
    phase = "done" =>
        IF Cardinality(DistinctDates(df_daily)) < 2
        THEN /\ message \in { << "no_date_data" >>, << "less_than_2_days" >> }
             /\ comp_alert = <<>> /\ alert_lines = <<>> /\ pretty = <<>>
             /\ ~summary.shown
             /\ latest_date = NaT /\ prev_date = NaT
        ELSE /\ message[1] = "header"
             /\ latest_date = RefLatest(df_daily)
             /\ prev_date = RefPrev(df_daily)
             /\ prev_date < latest_date
             /\ \A d \in DistinctDates(df_daily) : d = latest_date \/ d <= prev_date

\* one date only, a provider above 500 and the summary asked for: nothing but
\* the message
C10_Witness ==
    /\ phase = "done"
    /\ Cardinality(DistinctDates(df_daily)) = 1
    /\ show_summary
    /\ \E i \in DOMAIN df_daily : df_daily[i].importcount > 500
    /\ message = << "less_than_2_days" >>
    /\ pretty = <<>> /\ ~summary.shown

\* three dates: the oldest one is left out of the comparison
C10_WitnessThreeDates ==
    /\ phase = "done"
    /\ Cardinality(DistinctDates(df_daily)) = 3
    /\ latest_date = 3 /\ prev_date = 2

\* -- C13 -----------------------------------------------------------------
\* C13: every alert has latest different from prev; its direction is
\* 'increase' exactly when latest > prev and 'decrease' exactly when
\* latest < prev, as the sign of its ratio; with thresholds of 5% and more an
\* unchanged provider is never alerted.
C13_DirectionAgreesWithChange ==
    Compared =>
        /\ threshold_pct >= MinThresholdTenths
        /\ \A i \in DOMAIN pretty :
              LET k == <<pretty[i].ProviderId, pretty[i].Provider>>
                  now == LatestTotal(k)
                  prev == PrevTotal(k)
              IN /\ now # prev
                 /\ pretty[i].direction = "increase" <=> now > prev
                 /\ pretty[i].direction = "decrease" <=> now < prev
                 /\ alert_lines[i].direction = pretty[i].direction
                 /\ \A c \in CandidateRowsOf(k) :
                       /\ pretty[i].direction = "increase" <=>
                             (comp_alert[c].change_ratio.inf \/ comp_alert[c].change_ratio.num > 0)
                       /\ pretty[i].direction = "decrease" <=>
                             (~comp_alert[c].change_ratio.inf /\ comp_alert[c].change_ratio.num < 0)
        /\ \A k \in ProviderKeys(df_daily) :
              LatestTotal(k) = PrevTotal(k) => ~Alerted(k)

\* at the minimum threshold a provider unchanged at 1000 is a candidate and
\* is passed over, while another provider is alerted
C13_Witness ==
    /\ Compared
    /\ threshold_pct = MinThresholdTenths
    /\ \E k \in ProviderKeys(df_daily) :
          /\ LatestTotal(k) = 1000 /\ PrevTotal(k) = 1000
          /\ CandidateRowsOf(k) # {} /\ ~Alerted(k)
    /\ \E k \in ProviderKeys(df_daily) : Alerted(k)

\* ------------------------------------------------------------------------
\* The script's run for one view: global exclusion, then the view chosen
\* ------------------------------------------------------------------------
MaxViewRows == 3

\* the names on the two exclusion lists of lines 63 and 66
EXCLUDED_PROVIDERS_IN_SUMMARY == {"A"}
EXCLUDED_PROVIDERS_GLOBAL == {"G"}

\* providername of a ProviderId that the provider map does not hold
NoName == "<NaN>"

\* (providerid, providername): one provider on the global list, one on the
\* summary list, one without name, one on no list
ViewProviders == { <<1, "G">>, <<2, "A">>, <<3, NoName>>, <<4, "B">> }

\* Thursday, Friday, Saturday, Sunday, Monday
ViewDays == {3, 4, 5, 6, 7}
ViewCounts == {1000}

\* no holiday file, or one naming the Friday
ViewHolidaySets == { {}, {4} }

\* value=50.0 of the threshold widget, in tenths of a percent
DefaultThresholdTenths == 500

\* astype(str) of a ProviderId
astype_str(id) == CASE id = 1 -> "1" [] id = 2 -> "2" [] id = 3 -> "3" [] OTHER -> "4"

\* provider_label: providername where it is not NaN, else providerid_str
provider_label_of(id, name) == IF name # NoName THEN name ELSE astype_str(id)

\* the rows prepare_import_data returns
ImportRecords ==
    { [providerid |-> p[1], providername |-> p[2],
       provider_label |-> provider_label_of(p[1], p[2]),
       date_parsed |-> d, importcount |-> c] :
        p \in ViewProviders, d \in ViewDays, c \in ViewCounts }

ImportRecordOrd(r) == (r.providerid * 8 + r.date_parsed) * 2048 + r.importcount

\* The frames of at most MaxViewRows rows, one row order for each frame (the
\* views group and sum).
ImportFrames ==
    UNION { { f \in [1..n -> ImportRecords] :
                \A i \in 1..(n - 1) : ImportRecordOrd(f[i]) <= ImportRecordOrd(f[i + 1]) }
            : n \in 0..MaxViewRows }

filter_excluded_providers_ById(f, excluded_names) ==
    LET Kept(r) == astype_str(r.providerid) \notin excluded_names
    IN IF f = <<>> THEN f ELSE SelectSeq(f, Kept)

\* filter_excluded_providers: drop the rows whose stripped label is excluded
filter_excluded_providers(f, excluded_names) ==
    LET Kept(r) == strip(r.provider_label) \notin excluded_names
    IN IF f = <<>> THEN f ELSE SelectSeq(f, Kept)

\* filter_cn_named: keep the rows with a providername that is not blank
filter_cn_named(f) ==
    LET Named(r) == r.providername # NoName /\ strip(r.providername) # ""
    IN IF f = <<>> THEN f ELSE SelectSeq(f, Named)

RowIsWorkday(r) == weekday(r.date_parsed) < 5
RowIsWeekend(r) == weekday(r.date_parsed) >= 5

drop_holidays_KeepAll(f, useH, H) == f

\* df[~df["date_parsed"].isin(holidays_set)] when the toggle is on and the set
\* is not empty
drop_holidays(f, useH, H) ==
    LET NotHoliday(r) == r.date_parsed \notin H
    IN IF useH /\ Cardinality(H) > 0 THEN SelectSeq(f, NotHoliday) ELSE f

\* the order of sorted() on the labels
label_sort_key(l) ==
    CASE l = "1" -> 0 [] l = "2" -> 1 [] l = "3" -> 2 [] l = "4" -> 3
      [] l = "A" -> 4 [] l = "A " -> 5 [] l = "B" -> 6 [] OTHER -> 7

RECURSIVE LabelsSorted(_)
LabelsSorted(L) ==
    IF L = {} THEN <<>>
    ELSE LET m == CHOOSE x \in L : \A y \in L : label_sort_key(x) <= label_sort_key(y)
         IN <<m>> \o LabelsSorted(L \ {m})

\* sorted(df["provider_label"].dropna().unique().tolist())
unique_sorted_labels(f) == LabelsSorted({ f[i].provider_label : i \in DOMAIN f })

DailyKeyOrd(k) == (k[1] * 8 + LabelIdx(k[2])) * 8 + k[3]

RECURSIVE DailyKeysSorted(_)
DailyKeysSorted(K) ==
    IF K = {} THEN <<>>
    ELSE LET m == CHOOSE x \in K : \A y \in K : DailyKeyOrd(x) <= DailyKeyOrd(y)
         IN <<m>> \o DailyKeysSorted(K \ {m})

\* daily_import: df.groupby(["providerid", "provider_label", "date_parsed"])
\* ["importcount"].sum().reset_index().rename(columns={"date_parsed": "date"})
daily_import_of(f) ==
    LET keys == DailyKeysSorted({ <<f[i].providerid, f[i].provider_label, f[i].date_parsed>> :
                                    i \in DOMAIN f })
    IN [i \in DOMAIN keys |->
          LET Of(r) == /\ r.providerid = keys[i][1] /\ r.provider_label = keys[i][2]
                       /\ r.date_parsed = keys[i][3]
              g == SelectSeq(f, Of)
          IN [providerid |-> keys[i][1], provider_label |-> keys[i][2], date |-> keys[i][3],
              importcount |-> SumSeq([j \in DOMAIN g |-> g[j].importcount])]]

\* df["date_parsed"].min() and .max()
min_date(f) == CHOOSE d \in { f[i].date_parsed : i \in DOMAIN f } :
                  \A j \in DOMAIN f : d <= f[j].date_parsed
max_date(f) == CHOOSE d \in { f[i].date_parsed : i \in DOMAIN f } :
                  \A j \in DOMAIN f : d >= f[j].date_parsed

\* pd.to_datetime(selected_date_str).date(): the date a "%Y-%m-%d" text names
parse_date(text) == text[2]

\* view 1: day_data.groupby("provider_label")["importcount"].sum(), in every
\* order that is descending in the sum
single_day_counts(f, day) ==
    LET OnDay(r) == r.date_parsed = day
        day_data == SelectSeq(f, OnDay)
        labels == { day_data[i].provider_label : i \in DOMAIN day_data }
        rows == { [Provider |-> l,
                   count |-> LET Of(r) == r.provider_label = l
                                 g == SelectSeq(day_data, Of)
                             IN SumSeq([j \in DOMAIN g |-> g[j].importcount])] : l \in labels }
    IN { s \in Perms(rows) : \A i, j \in DOMAIN s : i < j => s[i].count >= s[j].count }

\* what a view of functions 2-4 computes after its own filters
tailOut == <<df, df_daily, min_d, max_d, policy, days_out, date_list, providers_list, trend,
             threshold_pct, show_summary, excluded_providers_in_summary,
             latest_date, prev_date, comp_alert, alert_lines, pretty, summary>>

\* st.warning(...) and nothing further
ViewStops(msg) ==
    /\ message' = << msg >>
    /\ UNCHANGED <<all_providers, whitelist>>
    /\ UNCHANGED tailOut

\* The common part of views 2-4 on the frame d left by the weekday, holiday
\* and named-provider filters: the allow-list, the detector, the date list
\* and the trend grid.  (useH, H) are the holiday arguments of make_date_list,
\* opt the (show_summary, excluded_providers_in_summary) of the detector.
ViewTail(d, pol, useH, H, opt) ==
    IF d = <<>> THEN ViewStops("no_data")
    ELSE /\ all_providers' = unique_sorted_labels(d)
         /\ \E wl \in SUBSET Range(unique_sorted_labels(d)) :
              /\ whitelist' = wl
              /\ LET Listed(r) == r.provider_label \in wl
                     dw == IF wl # {} THEN SelectSeq(d, Listed) ELSE d
                 IN IF dw = <<>>
                    THEN message' = << "no_data" >> /\ UNCHANGED tailOut
                    ELSE LET daily_import == daily_import_of(dw)
                             lo == min_date(dw)
                             hi == max_date(dw)
                             dl == make_date_list(lo, hi, pol, useH, H)
                             pl == unique_sorted_labels(dw)
                         IN /\ df' = dw
                            /\ df_daily' = daily_import
                            /\ RunDetector(daily_import, {threshold_pct}, {opt})
                            /\ min_d' = lo /\ max_d' = hi /\ policy' = pol
                            /\ days_out' = dl /\ date_list' = dl
                            /\ providers_list' = pl
                            /\ trend' = build_complete_trend_data(dw, dl, pl)

InitView ==
    /\ phase = "loaded"
    /\ menu = "none"
    /\ import_data_raw \in ImportFrames
    /\ import_data = import_data_raw
    /\ holidays_set \in ViewHolidaySets
    /\ threshold_pct = DefaultThresholdTenths
    /\ all_providers = <<>> /\ whitelist = {} /\ selected_date = NaT
    /\ provider_counts = <<>>
    /\ min_d = NaT /\ max_d = NaT /\ policy = "all" /\ use_holidays = FALSE
    /\ days_out = <<>>
    /\ df = <<>> /\ date_list = <<>> /\ providers_list = <<>> /\ trend = <<>>
    /\ df_daily = <<>> /\ show_summary = FALSE /\ excluded_providers_in_summary = {}
    /\ message = <<>> /\ latest_date = NaT /\ prev_date = NaT
    /\ comp_alert = <<>> /\ alert_lines = <<>> /\ pretty = <<>> /\ summary = NoSummary

\* line 395: import_data = filter_excluded_providers(import_data, EXCLUDED_PROVIDERS_GLOBAL)
FilterExcludedGlobal ==
    /\ phase = "loaded"
    /\ phase' = "filtered"
    /\ import_data' = filter_excluded_providers(import_data, EXCLUDED_PROVIDERS_GLOBAL)
    /\ UNCHANGED <<menu, import_data_raw, all_providers, whitelist, selected_date,
                   provider_counts>>
    /\ UNCHANGED datesVars
    /\ UNCHANGED trendVars
    /\ UNCHANGED dodVars

\* function 1: single-day analysis (lines 400-422)
ViewSingleDay ==
    /\ phase = "filtered"
    /\ phase' = "done"
    /\ menu' = "single_day"
    /\ UNCHANGED <<import_data_raw, import_data, holidays_set, use_holidays,
                   all_providers, whitelist>>
    /\ UNCHANGED tailOut
    /\ IF import_data = <<>>
       THEN message' = << "upload_files" >> /\ UNCHANGED <<selected_date, provider_counts>>
       ELSE LET dates == SetToSortedSeq({ import_data[i].date_parsed : i \in DOMAIN import_data }
                                         \ {NaT})
            IN IF dates = <<>>
               THEN /\ message' = << "no_valid_dates" >>
                    /\ UNCHANGED <<selected_date, provider_counts>>
               ELSE \E i \in DOMAIN dates :
                       LET selected == parse_date(strftime(dates[i]))
                       IN /\ selected_date' = selected
                          /\ message' = << "single_day_table" >>
                          /\ \E pc \in single_day_counts(import_data, selected) :
                                provider_counts' = pc

\* function 2: workdays only, with the summary (lines 427-479)
ViewWorkdays ==
    /\ phase = "filtered"
    /\ phase' = "done"
    /\ menu' = "workdays"
    /\ UNCHANGED <<import_data_raw, import_data, holidays_set, selected_date, provider_counts>>
    /\ IF import_data = <<>>
       THEN ViewStops("upload_files") /\ UNCHANGED use_holidays
       ELSE \E useH \in BOOLEAN :
              /\ use_holidays' = useH
              /\ ViewTail(filter_cn_named(drop_holidays(SelectSeq(import_data, RowIsWorkday),
                                                       useH, holidays_set)),
                          "workdays", useH, holidays_set,
                          <<TRUE, EXCLUDED_PROVIDERS_IN_SUMMARY>>)

\* function 3: weekends only (lines 484-519)
ViewWeekends ==
    /\ phase = "filtered"
    /\ phase' = "done"
    /\ menu' = "weekends"
    /\ UNCHANGED <<import_data_raw, import_data, holidays_set, use_holidays,
                   selected_date, provider_counts>>
    /\ IF import_data = <<>>
       THEN ViewStops("upload_files")
       ELSE ViewTail(filter_cn_named(SelectSeq(import_data, RowIsWeekend)),
                     "weekends", FALSE, {}, <<FALSE, {}>>)

\* function 4: all data (lines 524-556)
ViewAllData ==
    /\ phase = "filtered"
    /\ phase' = "done"
    /\ menu' = "all"
    /\ UNCHANGED <<import_data_raw, import_data, holidays_set, use_holidays,
                   selected_date, provider_counts>>
    /\ IF import_data = <<>>
       THEN ViewStops("upload_files")
       ELSE ViewTail(filter_cn_named(import_data), "all", FALSE, {}, <<FALSE, {}>>)

NextView ==
    \/ FilterExcludedGlobal
    \/ ViewSingleDay
    \/ ViewWorkdays
    \/ ViewWeekends
    \/ ViewAllData

SpecView == InitView /\ [][NextView]_vars

\* -- C11 -----------------------------------------------------------------
OnGlobalList(l) == strip(l) \in EXCLUDED_PROVIDERS_GLOBAL

\* the loaded records of label p dated d, summed
RawCount(p, d) ==
    LET Of(r) == r.provider_label = p /\ r.date_parsed = d
        sel == SelectSeq(import_data_raw, Of)
    IN SumSeq([i \in DOMAIN sel |-> sel[i].importcount])

\* the dates of the loaded records whose label is not on the global list
UnlistedDates ==
    { import_data_raw[i].date_parsed :
        i \in { j \in DOMAIN import_data_raw : ~OnGlobalList(import_data_raw[j].provider_label) } }

\* C11: whichever of the four views ran, no row of the single-day table, of
\* the candidates, of the alerts, of the summary or of the trend grid names a
\* label of the global exclusion list, every count shown is the sum of loaded
\* records of the row's own (unlisted) label, the dates compared and the ends
\* of the date list are dates of unlisted records, and no listed label is
\* among the allow-list options.
C11_GlobalExclusionEverywhere ==
    phase = "done" =>
        /\ \A i \in DOMAIN provider_counts :
              /\ ~OnGlobalList(provider_counts[i].Provider)
              /\ provider_counts[i].count = RawCount(provider_counts[i].Provider, selected_date)
        /\ \A i \in DOMAIN comp_alert : ~OnGlobalList(comp_alert[i].provider_label)
        /\ \A i \in DOMAIN alert_lines : ~OnGlobalList(alert_lines[i].provider_label)
        /\ \A i \in DOMAIN pretty :
              /\ ~OnGlobalList(pretty[i].Provider)
              /\ pretty[i].latest_count = RawCount(pretty[i].Provider, latest_date)
              /\ pretty[i].prev_count = RawCount(pretty[i].Provider, prev_date)
        /\ \A i \in DOMAIN summary.detail :
              /\ ~OnGlobalList(summary.detail[i].Provider)
              /\ summary.detail[i].latest_count = RawCount(summary.detail[i].Provider, latest_date)
              /\ summary.detail[i].prev_count = RawCount(summary.detail[i].Provider, prev_date)
        /\ summary.net_change =
              SumSeq([i \in DOMAIN summary.detail |->
                        summary.detail[i].latest_count - summary.detail[i].prev_count])
        /\ \A i \in DOMAIN trend :
              /\ ~OnGlobalList(trend[i].provider_label)
              /\ trend[i].importcount = RawCount(trend[i].provider_label, trend[i].date_parsed)
        /\ \A i \in DOMAIN df_daily : ~OnGlobalList(df_daily[i].provider_label)
        /\ latest_date # NaT => {latest_date, prev_date} \subseteq UnlistedDates
        /\ selected_date # NaT => selected_date \in UnlistedDates
        /\ date_list # <<>> => {min_d, max_d} \subseteq UnlistedDates
        /\ \A l \in Range(all_providers) \cup Range(providers_list) \cup whitelist :
              ~OnGlobalList(l)

\* the workdays view on records where a listed provider has the only record
\* of the newest workday, with 1000 items: the days compared are the two
\* before it, an unlisted provider is alerted and summarised, the grid is built
C11_Witness ==
    /\ phase = "done" /\ menu = "workdays"
    /\ \E i \in DOMAIN import_data_raw :
          /\ OnGlobalList(import_data_raw[i].provider_label)
          /\ import_data_raw[i].importcount > 500
          /\ RowIsWorkday(import_data_raw[i])
          /\ import_data_raw[i].date_parsed \notin holidays_set
          /\ import_data_raw[i].date_parsed > latest_date
    /\ latest_date # NaT
    /\ pretty # <<>> /\ summary.shown /\ trend # <<>>
    /\ all_providers # <<>>

\* the single-day view of a day on which a listed provider and an unlisted
\* one both have records
C11_WitnessSingleDay ==
    /\ phase = "done" /\ menu = "single_day"
    /\ provider_counts # <<>>
    /\ \E i \in DOMAIN import_data_raw :
          /\ OnGlobalList(import_data_raw[i].provider_label)
          /\ import_data_raw[i].date_parsed = selected_date

\* -- C12 -----------------------------------------------------------------
TrendViews == {"workdays", "weekends", "all"}

\* the filters of the view that ran, read off the view's widgets
SurvivesView(r) ==
    /\ menu = "workdays" => /\ weekday(r.date_parsed) < 5
                            /\ (use_holidays /\ holidays_set # {}) => r.date_parsed \notin holidays_set
    /\ menu = "weekends" => weekday(r.date_parsed) >= 5
    /\ r.providername # NoName /\ strip(r.providername) # ""
    /\ whitelist # {} => r.provider_label \in whitelist

ViewSurvivors == SelectSeq(import_data, SurvivesView)

GridTotal == SumSeq([i \in DOMAIN trend |-> trend[i].importcount])

SurvivorsTotal == SumSeq([i \in DOMAIN ViewSurvivors |-> ViewSurvivors[i].importcount])

\* the view went as far as the trend grid
TrendViewRan == phase = "done" /\ menu \in TrendViews /\ ViewSurvivors # <<>>

\* C12: in the workdays, weekends and all-data views with a surviving record,
\* every surviving record's date is in the date list, the last date of the
\* list is the newest surviving date, which is the detector's latest date
\* whenever the detector compares two dates, and the counts of the trend grid
\* add up to the counts of the surviving records.
C12_DateListCoversSurvivors ==
    TrendViewRan =>
        /\ df = ViewSurvivors
        /\ \A i \in DOMAIN ViewSurvivors : ViewSurvivors[i].date_parsed \in Range(date_list)
        /\ date_list # <<>>
        /\ \A i \in DOMAIN ViewSurvivors :
              ViewSurvivors[i].date_parsed <= date_list[Len(date_list)]
        /\ RefLatest(df_daily) = date_list[Len(date_list)]
        /\ Cardinality(DistinctDates(df_daily)) >= 2 => latest_date = date_list[Len(date_list)]
        /\ GridTotal = SurvivorsTotal

\* the workdays view with the holiday toggle on and the Friday a holiday, on
\* records of Thursday, Friday and Monday with an allow-list choice made: the
\* Friday record is dropped, the date list is Thursday and Monday, the detector
\* compares these two
C12_Witness ==
    /\ TrendViewRan /\ menu = "workdays"
    /\ use_holidays /\ holidays_set # {}
    /\ \E i \in DOMAIN import_data : import_data[i].date_parsed \in holidays_set
    /\ whitelist # {}
    /\ Len(date_list) = 2
    /\ latest_date = date_list[2] /\ prev_date = date_list[1]
    /\ date_list[2] - date_list[1] > 1
    /\ GridTotal > 0

\* the weekend view comparing Saturday and Sunday
C12_WitnessWeekends ==
    /\ TrendViewRan /\ menu = "weekends"
    /\ Len(date_list) = 2 /\ latest_date = date_list[2]
    /\ \E i \in DOMAIN import_data : weekday(import_data[i].date_parsed) < 5

\* the all-data view over a range with a day without records
C12_WitnessAllData ==
    /\ TrendViewRan /\ menu = "all"
    /\ Len(date_list) >= 3 /\ latest_date = date_list[Len(date_list)]
    /\ \E d \in Range(date_list) : \A i \in DOMAIN df : df[i].date_parsed # d

====
